---------------------------- MODULE Spec2Model ----------------------------
(***************************************************************************)
(* Model of the ETF comparator's performance-metrics engine                *)
(* (src/src/helpers_business.py) and of the record it builds                *)
(* (src/src/model.py).                                                     *)
(*                                                                         *)
(* Numbers.  The code works on numpy float64 values.  The model computes   *)
(* the same expressions in exact arithmetic:                               *)
(*   - a rational is a pair <<n, d>> in lowest terms with d > 0;           *)
(*   - the IEEE special values the code can produce without raising are    *)
(*     kept: <<1, 0>> is +inf, <<-1, 0>> is -inf, <<0, 0>> is nan;          *)
(*   - a metric value is a record [k, B, h, c, r] standing for             *)
(*         (k * B^(252/h) + c) * sqrt(r)                                   *)
(*     so that the square roots (np.std, np.sqrt) and the annualisation    *)
(*     power are carried exactly instead of being rounded.                 *)
(* Rounding of float64 is not modelled.                                    *)
(***************************************************************************)
EXTENDS Integers, Sequences, FiniteSets, TLC

(***************************************************************************)
(* Bounds of the model.                                                    *)
(***************************************************************************)
\* longest price series fed to the engine
MaxLen == 3

(***************************************************************************)
(* Extended rationals.                                                     *)
(***************************************************************************)
RECURSIVE GCD(_, _)
GCD(a, b) == IF b = 0 THEN a ELSE GCD(b, a % b)

Abs(n) == IF n < 0 THEN -n ELSE n

Sign(n) == IF n < 0 THEN -1 ELSE IF n > 0 THEN 1 ELSE 0

\* the rational n/d (d # 0) in lowest terms with a positive denominator
Norm(n, d) ==
    LET g == GCD(Abs(n), Abs(d))
        s == IF d < 0 THEN -1 ELSE 1
    IN  <<(s * n) \div g, (s * d) \div g>>

NaN == <<0, 0>>
PosInf == <<1, 0>>
NegInf == <<-1, 0>>
Rat(n) == <<n, 1>>
Zero == <<0, 1>>
One == <<1, 1>>

IsNaN(x) == x = NaN
IsInf(x) == x[2] = 0 /\ x[1] # 0
IsFinite(x) == x[2] > 0

\* float negation
RNeg(x) == <<-x[1], x[2]>>

\* float addition: inf + (-inf) is nan
RAdd(x, y) ==
    IF IsNaN(x) \/ IsNaN(y) THEN NaN
    ELSE IF IsInf(x) /\ IsInf(y) THEN (IF x = y THEN x ELSE NaN)
    ELSE IF IsInf(x) THEN x
    ELSE IF IsInf(y) THEN y
    ELSE LET g == GCD(x[2], y[2])
         IN  Norm(x[1] * (y[2] \div g) + y[1] * (x[2] \div g),
                  (x[2] \div g) * y[2])

RSub(x, y) == RAdd(x, RNeg(y))

\* float multiplication: 0 * inf is nan
RMul(x, y) ==
    IF IsNaN(x) \/ IsNaN(y) THEN NaN
    ELSE IF IsInf(x) \/ IsInf(y)
         THEN <<Sign(x[1]) * Sign(y[1]), 0>>
    ELSE LET g1 == GCD(Abs(x[1]), y[2])
             g2 == GCD(Abs(y[1]), x[2])
         IN  <<(x[1] \div g1) * (y[1] \div g2),
               (x[2] \div g2) * (y[2] \div g1)>>

\* numpy float division: x/0 is +-inf, 0/0 and inf/inf are nan, no exception
RDiv(x, y) ==
    IF IsNaN(x) \/ IsNaN(y) THEN NaN
    ELSE IF IsInf(y) THEN (IF IsInf(x) THEN NaN ELSE Zero)
    ELSE IF y[1] = 0 THEN <<Sign(x[1]), 0>>
    ELSE IF IsInf(x) THEN <<Sign(x[1]) * Sign(y[1]), 0>>
    ELSE RMul(x, Norm(y[2], y[1]))

\* float comparison x < y: false when either side is nan
RLt(x, y) ==
    IF IsNaN(x) \/ IsNaN(y) THEN FALSE
    ELSE IF x = y THEN FALSE
    ELSE IF IsInf(x) THEN x = NegInf
    ELSE IF IsInf(y) THEN y = PosInf
    ELSE x[1] * y[2] < y[1] * x[2]

RLe(x, y) == ~IsNaN(x) /\ ~IsNaN(y) /\ ~RLt(y, x)

\* np.maximum: the larger value, nan if either side is nan
RMax(x, y) ==
    IF IsNaN(x) \/ IsNaN(y) THEN NaN
    ELSE IF RLt(x, y) THEN y ELSE x

(***************************************************************************)
(* Metric values: (k * B^(252/h) + c) * sqrt(r).                           *)
(***************************************************************************)
\* canonical record: no power term when k = 0, no radicand when the
\* rational part is 0, nan or infinite
Num(k, B, h, c, r) ==
    IF IsNaN(k) \/ IsNaN(c) \/ IsNaN(B)
    THEN [k |-> Zero, B |-> One, h |-> 1, c |-> NaN, r |-> One]
    ELSE IF k = Zero
    THEN [k |-> Zero, B |-> One, h |-> 1, c |-> c,
          r |-> IF IsFinite(c) /\ c # Zero THEN r ELSE One]
    ELSE [k |-> k, B |-> B, h |-> h, c |-> c, r |-> r]

\* a float holding the rational (or inf, nan) x
NRat(x) == Num(Zero, One, 1, x, One)

NZero == NRat(Zero)

\* Python's `x != 0` is false exactly for a zero; nan and inf are non-zero
NIsZero(x) == x.k = Zero /\ x.c = Zero

NIsNaN(x) == x.k = Zero /\ IsNaN(x.c)

\* np.sqrt of a float: nan for a negative or nan argument
np_sqrt(x) ==
    IF IsNaN(x) \/ RLt(x, Zero) THEN NRat(NaN)
    ELSE IF x = Zero \/ x = PosInf THEN NRat(x)
    ELSE Num(Zero, One, 1, One, x)

\* product of two square-root values (std * sqrt(252))
NMulSurd(a, b) == Num(Zero, One, 1, RMul(a.c, b.c), RMul(a.r, b.r))

\* x / s for x without radicand and s a square-root value q * sqrt(r):
\* (k * P + c) / (q * sqrt(r)) = (k / (q r) * P + c / (q r)) * sqrt(r)
NDiv(x, s) ==
    LET qr == RMul(s.c, s.r)
    IN  Num(RDiv(x.k, qr), x.B, x.h, RDiv(x.c, qr), s.r)

\* x - y for a float y
NSubRat(x, y) == Num(x.k, x.B, x.h, RSub(x.c, y), x.r)

\* b ** (252 / h) - 1 for a float b and an int h > 0.  The power is kept
\* symbolic unless the base makes it exact (0, 1, -1, inf).  A negative
\* base with a non-integer exponent is nan in numpy.
PowMinusOne(b, h) ==
    LET int_exp == 252 % h = 0
        odd_exp == int_exp /\ (252 \div h) % 2 = 1
        sgn == IF odd_exp THEN Rat(-1) ELSE One
    IN  IF IsNaN(b) THEN NRat(NaN)
        ELSE IF b = One THEN NRat(Zero)
        ELSE IF b = Zero THEN NRat(Rat(-1))
        ELSE IF b = PosInf THEN NRat(PosInf)
        ELSE IF b = NegInf THEN NRat(IF odd_exp THEN NegInf ELSE PosInf)
        ELSE IF RLt(Zero, b) THEN Num(One, b, h, Rat(-1), One)
        ELSE IF ~int_exp THEN NRat(NaN)
        ELSE IF b = Rat(-1) THEN NRat(RSub(sgn, One))
        ELSE Num(sgn, RNeg(b), h, Rat(-1), One)

(***************************************************************************)
(* numpy reductions over a float array (a sequence of extended rationals). *)
(***************************************************************************)
RECURSIVE SeqSum(_)
SeqSum(s) == IF s = <<>> THEN Zero ELSE RAdd(s[1], SeqSum(Tail(s)))

\* np.mean: sum / n; nan for an empty array
np_mean(s) == RDiv(SeqSum(s), Rat(Len(s)))

\* np.var, ddof = 0: the population variance
np_var(s) ==
    LET m == np_mean(s)
    IN  np_mean([i \in 1..Len(s) |-> RMul(RSub(s[i], m), RSub(s[i], m))])

\* np.std, ddof = 0
np_std(s) == np_sqrt(np_var(s))

\* sum of the products of the deviations of x and y from their means
CoMoment(x, y) ==
    LET mx == np_mean(x)
        my == np_mean(y)
    IN  SeqSum([i \in 1..Len(x) |-> RMul(RSub(x[i], mx), RSub(y[i], my))])

\* np.cov(x, y)[0, 1], ddof = 1: the sample covariance; with a single
\* observation the factor is 1 / 0.0 = inf and the result nan
np_cov(x, y) == RMul(CoMoment(x, y), RDiv(One, Rat(Len(x) - 1)))

\* np.corrcoef(x, y)[0, 1] ** 2: cov / sqrt(var x) / sqrt(var y), squared;
\* nan when a variance is 0
np_corrcoef_squared(x, y) ==
    LET c == np_cov(x, y)
    IN  RDiv(RMul(c, c), RMul(np_cov(x, x), np_cov(y, y)))

\* np.cumprod
RECURSIVE CumProdFrom(_, _)
CumProdFrom(acc, s) ==
    IF s = <<>> THEN <<>>
    ELSE <<RMul(acc, s[1])>> \o CumProdFrom(RMul(acc, s[1]), Tail(s))

np_cumprod(s) == CumProdFrom(One, s)

\* np.maximum.accumulate
RECURSIVE MaxAccFrom(_, _)
MaxAccFrom(acc, s) ==
    IF s = <<>> THEN <<>>
    ELSE <<RMax(acc, s[1])>> \o MaxAccFrom(RMax(acc, s[1]), Tail(s))

np_maximum_accumulate(s) ==
    IF s = <<>> THEN <<>> ELSE <<s[1]>> \o MaxAccFrom(s[1], Tail(s))

\* np.max of a non-empty array: nan if any element is nan
RECURSIVE np_max(_)
np_max(s) == IF Len(s) = 1 THEN s[1] ELSE RMax(s[1], np_max(Tail(s)))

(***************************************************************************)
(* Optional values: None is the empty sequence, a present value v is <<v>>.*)
(***************************************************************************)
None == <<>>
Some(v) == <<v>>

(***************************************************************************)
(* src/src/model.py: the PerformanceMetrics dataclass.                     *)
(***************************************************************************)
\* the fields the dataclass declares without a default
RequiredFields ==
    {"ticker", "period", "total_return", "annualized_return", "volatility",
     "sharpe_ratio", "max_drawdown"}

\* the fields the dataclass declares with the default None
DefaultedFields == {"tracking_error", "beta", "correlation"}

PerformanceMetricsFields == RequiredFields \cup DefaultedFields

\* the generated __init__ accepts exactly the declared fields as keywords:
\* an undeclared keyword or a missing required one raises TypeError
PerformanceMetrics(kwargs) ==
    IF DOMAIN kwargs \subseteq PerformanceMetricsFields
       /\ RequiredFields \subseteq DOMAIN kwargs
    THEN [outcome |-> "returned", kwargs |-> Some(kwargs)]
    ELSE [outcome |-> "TypeError", kwargs |-> Some(kwargs)]

(***************************************************************************)
(* src/src/helpers_business.py                                             *)
(***************************************************************************)
\* calculate_returns with the quotient upside down
calculate_returns_Swapped(prices) ==
    [i \in 1..(IF Len(prices) = 0 THEN 0 ELSE Len(prices) - 1) |->
        RSub(RDiv(prices[i], prices[i + 1]), One)]

\* prices_array[1:] / prices_array[:-1] - 1; no validation of the input:
\* an array of fewer than two prices gives the empty array, a zero price
\* gives inf or nan, a negative price a finite quotient
calculate_returns(prices) ==
    [i \in 1..(IF Len(prices) = 0 THEN 0 ELSE Len(prices) - 1) |->
        RSub(RDiv(prices[i + 1], prices[i]), One)]

\* returns - risk_free_rate / 252
ExcessReturns(returns, risk_free_rate) ==
    [i \in 1..Len(returns) |->
        RSub(returns[i], RDiv(risk_free_rate, Rat(252)))]

\* np.where(returns < 0, returns, 0)
DownsideReturns(returns) ==
    [i \in 1..Len(returns) |->
        IF RLt(returns[i], Zero) THEN returns[i] ELSE Zero]

\* np.std(downside_returns) * np.sqrt(252)
DownsideVolatility(returns) ==
    NMulSurd(np_std(DownsideReturns(returns)), np_sqrt(Rat(252)))

calculate_sortino_ratio(returns, risk_free_rate) ==
    LET excess_returns == ExcessReturns(returns, risk_free_rate)
        downside_volatility == DownsideVolatility(returns)
    IN  IF ~NIsZero(downside_volatility)
        THEN NDiv(NRat(RMul(np_mean(excess_returns), Rat(252))),
                  downside_volatility)
        ELSE NZero

\* (prices[-1] / prices[0]) - 1
TotalReturn(prices) == RSub(RDiv(prices[Len(prices)], prices[1]), One)

\* (1 + total_return) ** (252 / holding_period) - 1
AnnualizedReturn(total_return, holding_period) ==
    PowMinusOne(RAdd(One, total_return), holding_period)

\* np.std(returns) * np.sqrt(252)
Volatility(returns) == NMulSurd(np_std(returns), np_sqrt(Rat(252)))

\* SharpeRatio without the zero-volatility guard
SharpeRatio_Unguarded(excess_returns, volatility) ==
    NDiv(NRat(RMul(np_mean(excess_returns), Rat(252))), volatility)

\* np.mean(excess_returns) * 252 / volatility if volatility != 0 else 0
SharpeRatio(excess_returns, volatility) ==
    IF ~NIsZero(volatility)
    THEN NDiv(NRat(RMul(np_mean(excess_returns), Rat(252))), volatility)
    ELSE NZero

\* CumulativeReturns as np.cumprod(returns), the 1 + forgotten
CumulativeReturns_WithoutOne(returns) == np_cumprod(returns)

\* np.cumprod(1 + returns)
CumulativeReturns(returns) ==
    np_cumprod([i \in 1..Len(returns) |-> RAdd(One, returns[i])])

\* Drawdowns measured in absolute terms, not relative to the running peak
Drawdowns_NotRelative(cumulative_returns) ==
    LET running_max == np_maximum_accumulate(cumulative_returns)
    IN  [i \in 1..Len(cumulative_returns) |->
            RSub(running_max[i], cumulative_returns[i])]

\* (running_max - cumulative_returns) / running_max
Drawdowns(cumulative_returns) ==
    LET running_max == np_maximum_accumulate(cumulative_returns)
    IN  [i \in 1..Len(cumulative_returns) |->
            RDiv(RSub(running_max[i], cumulative_returns[i]),
                 running_max[i])]

\* np.max(drawdowns)
MaxDrawdown(returns) == np_max(Drawdowns(CumulativeReturns(returns)))

\* the condition under which the benchmark-relative metrics are computed
BenchmarkUsed(returns, benchmark_returns) ==
    /\ benchmark_returns # None
    /\ Len(benchmark_returns[1]) = Len(returns)

\* covariance / benchmark_variance if benchmark_variance != 0 else 1
BetaRatio(covariance, benchmark_variance) ==
    IF benchmark_variance # Zero
    THEN RDiv(covariance, benchmark_variance)
    ELSE One

\* beta: np.cov is the sample covariance (ddof = 1), np.var the population
\* variance (ddof = 0)
Beta(returns, bench) == BetaRatio(np_cov(returns, bench), np_var(bench))

\* risk_free_rate + beta * (np.mean(benchmark_returns) * 252 - risk_free_rate)
ExpectedReturn(beta, bench_mean, risk_free_rate) ==
    RAdd(risk_free_rate,
         RMul(beta, RSub(RMul(bench_mean, Rat(252)), risk_free_rate)))

\* np.std(returns - benchmark_returns) * np.sqrt(252)
TrackingError(returns, bench) ==
    NMulSurd(np_std([i \in 1..Len(returns) |-> RSub(returns[i], bench[i])]),
             np_sqrt(Rat(252)))

\* InformationRatio without the zero-tracking-error guard
InformationRatio_Unguarded(active_return, tracking_error) ==
    NDiv(active_return, tracking_error)

\* active_return / tracking_error if tracking_error != 0 else 0
InformationRatio(active_return, tracking_error) ==
    IF ~NIsZero(tracking_error)
    THEN NDiv(active_return, tracking_error)
    ELSE NZero

\* the five benchmark-relative values, or None for each of them
BenchmarkMetrics(returns, annualized_return, risk_free_rate, benchmark_returns) ==
    IF BenchmarkUsed(returns, benchmark_returns)
    THEN LET bench == benchmark_returns[1]
             bench_mean == np_mean(bench)
             beta == Beta(returns, bench)
             expected_return ==
                 ExpectedReturn(beta, bench_mean, risk_free_rate)
             tracking_error == TrackingError(returns, bench)
             active_return ==
                 NSubRat(annualized_return, RMul(bench_mean, Rat(252)))
         IN  [beta |-> Some(NRat(beta)),
              alpha |-> Some(NSubRat(annualized_return, expected_return)),
              r_squared |-> Some(NRat(np_corrcoef_squared(returns, bench))),
              tracking_error |-> Some(tracking_error),
              information_ratio |->
                  Some(InformationRatio(active_return, tracking_error))]
    ELSE [beta |-> None, alpha |-> None, r_squared |-> None,
          tracking_error |-> None, information_ratio |-> None]

\* PeriodLabel counting the prices instead of the returns
PeriodLabel_FromPrices(holding_period) == ToString(holding_period + 1) \o "d"

\* f"{holding_period}d"
PeriodLabel(holding_period) == ToString(holding_period) \o "d"

\* price_data[0].ticker
RecordTicker(price_data) == price_data[1].ticker

\* the keyword arguments of the PerformanceMetrics(...) call
MetricsKwargs(price_data, risk_free_rate, benchmark_returns) ==
    LET prices == [i \in 1..Len(price_data) |-> Rat(price_data[i].adj_close)]
        returns == calculate_returns(prices)
        total_return == TotalReturn(prices)
        holding_period == Len(returns)
        annualized_return == AnnualizedReturn(total_return, holding_period)
        volatility == Volatility(returns)
        excess_returns == ExcessReturns(returns, risk_free_rate)
        rel == BenchmarkMetrics(returns, annualized_return, risk_free_rate,
                                benchmark_returns)
    IN  [ticker |-> RecordTicker(price_data),
         period |-> PeriodLabel(holding_period),
         total_return |-> NRat(total_return),
         annualized_return |-> annualized_return,
         volatility |-> volatility,
         sharpe_ratio |-> SharpeRatio(excess_returns, volatility),
         sortino_ratio |-> calculate_sortino_ratio(returns, risk_free_rate),
         max_drawdown |-> NRat(MaxDrawdown(returns)),
         beta |-> rel.beta,
         alpha |-> rel.alpha,
         r_squared |-> rel.r_squared,
         tracking_error |-> rel.tracking_error,
         information_ratio |-> rel.information_ratio]

\* the whole call: how it ends and, when it got that far, the keyword
\* arguments it handed to the record's constructor.  An empty series fails
\* at prices[-1], a single observation at 252 / holding_period.
calculate_performance_metrics(price_data, risk_free_rate, benchmark_returns) ==
    IF Len(price_data) = 0
    THEN [outcome |-> "IndexError", kwargs |-> None]
    ELSE IF Len(price_data) = 1
    THEN [outcome |-> "ZeroDivisionError", kwargs |-> None]
    ELSE PerformanceMetrics(
             MetricsKwargs(price_data, risk_free_rate, benchmark_returns))

(***************************************************************************)
(* The state: the caller's inputs and what each call produced.             *)
(***************************************************************************)
VARIABLES
    price_data,         \* the List[ETFPriceData] handed to the engine
    risk_free_rate,     \* the annual risk-free rate
    benchmark_returns,  \* None or Some(array of benchmark returns)
    period,             \* the period label the series was fetched under
    returns_result,     \* None, or Some(what calculate_returns returned)
    metrics_result,     \* None, or Some([outcome, kwargs]) of the engine call
    sortino_returns,    \* the returns array handed to calculate_sortino_ratio
    sortino_result,     \* None, or Some([downside_returns, ratio]) of that call
    table_metrics,      \* the records handed to display_metrics_table, in
                        \* the order of the dictionary
    comparison_prices,  \* display_comparison's comparison_prices: None for
                        \* an empty dictionary, or Some([ticker, prices])
    view_result,        \* None, or Some([op, outcome, rows]) of a dashboard call
    table_price_data,   \* the rows of the SQLite table price_data
    repo_call           \* None, or Some(record) of the repository or loader
                        \* call that has just returned

engine_vars == <<price_data, risk_free_rate, benchmark_returns, period,
                 returns_result, metrics_result>>

sortino_vars == <<sortino_returns, sortino_result>>

view_vars == <<table_metrics, comparison_prices, view_result>>

repo_vars == <<table_price_data, repo_call>>

vars == <<engine_vars, sortino_vars, view_vars, repo_vars>>

inputs == <<price_data, risk_free_rate, benchmark_returns, period>>

Tickers == {"X", "Y"}

\* adjusted closes of the observations: valid (positive) prices and the
\* invalid ones, 0 and a negative price
PriceValues == {-1, 0, 1, 2, 3}

\* 0.0 and the default rate 0.01
RiskFreeRates == {Zero, Norm(1, 100)}

\* the period choices of the caller
Periods == {"1mo", "5y"}

BenchValues == {Norm(-1, 2), Norm(1, 2)}

\* all series of one ticker with at most MaxLen observations
PriceSeries ==
    UNION {{[i \in 1..n |-> [ticker |-> t, date |-> i, adj_close |-> p[i]]] :
               p \in [1..n -> PriceValues], t \in Tickers} : n \in 0..MaxLen}

\* the adj_close column as floats
Prices(pd) == [i \in 1..Len(pd) |-> Rat(pd[i].adj_close)]

\* benchmark arguments: absent, the series' own returns, every array over
\* BenchValues as long as the returns, one array shorter and one longer
BenchmarkChoices(pd) ==
    LET n == IF Len(pd) = 0 THEN 0 ELSE Len(pd) - 1
    IN  {None, Some(calculate_returns(Prices(pd)))}
        \cup {Some(b) : b \in [1..n -> BenchValues]}
        \cup {Some([i \in 1..m |-> Norm(1, 2)]) : m \in {k \in {n - 1, n + 1} : k >= 0}}

\* no direct call of calculate_sortino_ratio is under way
SortinoIdle ==
    /\ sortino_returns = <<>>
    /\ sortino_result = None

\* the repository is not used
RepoIdle ==
    /\ table_price_data = {}
    /\ repo_call = None

\* no call of the dashboard is under way
ViewIdle ==
    /\ table_metrics = <<>>
    /\ comparison_prices = None
    /\ view_result = None

Init ==
    /\ price_data \in PriceSeries
    /\ risk_free_rate \in RiskFreeRates
    /\ benchmark_returns \in BenchmarkChoices(price_data)
    /\ period \in Periods
    /\ returns_result = None
    /\ metrics_result = None
    /\ SortinoIdle
    /\ ViewIdle
    /\ RepoIdle

\* a call of calculate_returns on the series' prices
CallCalculateReturns ==
    /\ returns_result = None
    /\ metrics_result = None
    /\ returns_result' = Some(calculate_returns(Prices(price_data)))
    /\ UNCHANGED <<inputs, metrics_result, sortino_vars, view_vars, repo_vars>>

\* a call of calculate_performance_metrics on the inputs
CallCalculatePerformanceMetrics ==
    /\ returns_result = None
    /\ metrics_result = None
    /\ metrics_result' =
           Some(calculate_performance_metrics(price_data, risk_free_rate,
                                              benchmark_returns))
    /\ UNCHANGED <<inputs, returns_result, sortino_vars, view_vars, repo_vars>>

Next == CallCalculateReturns \/ CallCalculatePerformanceMetrics

Spec == Init /\ [][Next]_vars

(***************************************************************************)
(* Vocabulary of the properties.                                           *)
(***************************************************************************)
\* the input the engine's contract asks for: at least two observations,
\* every price strictly positive
ValidSeries(pd) ==
    /\ Len(pd) >= 2
    /\ \A i \in 1..Len(pd) : pd[i].adj_close > 0

\* the return series the engine derives from the price series
DerivedReturns == calculate_returns(Prices(price_data))

MetricsCalled == metrics_result # None

ReturnsCalled == returns_result # None

\* how the call of calculate_performance_metrics ended
Outcome == metrics_result[1].outcome

\* the call reached the PerformanceMetrics(...) constructor
ReachedConstructor == MetricsCalled /\ metrics_result[1].kwargs # None

\* the values computed for the record's fields: the keyword arguments
\* handed to the constructor
Computed == metrics_result[1].kwargs[1]

BenchmarkRelativeFields ==
    {"beta", "alpha", "r_squared", "tracking_error", "information_ratio"}

\* the fields the specification lists for every record
CoreFields ==
    {"ticker", "period", "total_return", "annualized_return", "volatility",
     "sharpe_ratio", "sortino_ratio", "max_drawdown"}

(***************************************************************************)
(* C1                                                                      *)
(***************************************************************************)
\* C1: whenever the price series has fewer than 2 observations or contains
\* a price <= 0, calculate_performance_metrics ends in an InvalidInput
\* error and calculate_returns returns no return sequence.
C1_InvalidInputRejected ==
    ~ValidSeries(price_data) =>
        /\ MetricsCalled => Outcome = "InvalidInput"
        /\ ~ReturnsCalled

(***************************************************************************)
(* C2                                                                      *)
(***************************************************************************)
\* C2: for every series of at least 2 strictly positive prices, any
\* risk-free rate and any benchmark argument, the call ends by returning a
\* record that holds ticker, period, total return, annualized return,
\* volatility, Sharpe ratio, Sortino ratio and max drawdown.
C2_ValidInputReturnsRecord ==
    (MetricsCalled /\ ValidSeries(price_data)) =>
        /\ Outcome = "returned"
        /\ CoreFields \subseteq DOMAIN Computed

(***************************************************************************)
(* C3                                                                      *)
(***************************************************************************)
\* what the call without a benchmark argument produces on the same series
WithoutBenchmark ==
    calculate_performance_metrics(price_data, risk_free_rate, None)

\* C3: when the benchmark is absent or its length differs from that of the
\* derived returns, the call does not fail, the five benchmark-relative
\* fields are None and every other field equals that of the call without
\* a benchmark.
C3_BenchmarkAbsentOrMismatched ==
    (/\ MetricsCalled
     /\ ValidSeries(price_data)
     /\ ~BenchmarkUsed(DerivedReturns, benchmark_returns)) =>
        /\ Outcome = "returned"
        /\ \A f \in BenchmarkRelativeFields : Computed[f] = None
        /\ \A f \in DOMAIN Computed \ BenchmarkRelativeFields :
               Computed[f] = WithoutBenchmark.kwargs[1][f]

(***************************************************************************)
(* C4                                                                      *)
(***************************************************************************)
\* price[1] / price[0] of a series, as a rational
SecondOverFirst(pd) == Norm(pd[2].adj_close, pd[1].adj_close)

\* C4: for every valid series of exactly 2 prices the computed
\* total_return is price[1]/price[0] - 1 and the computed max_drawdown is
\* max(0, 1 - price[1]/price[0]).
C4_LengthTwo ==
    (ReachedConstructor /\ ValidSeries(price_data) /\ Len(price_data) = 2) =>
        /\ Computed.total_return =
               NRat(RSub(SecondOverFirst(price_data), One))
        /\ Computed.max_drawdown =
               NRat(RMax(Zero, RSub(One, SecondOverFirst(price_data))))

(***************************************************************************)
(* C5                                                                      *)
(***************************************************************************)
StrictlyIncreasing(pd) ==
    \A i \in 1..(Len(pd) - 1) : pd[i].adj_close < pd[i + 1].adj_close

\* the cumulative growth factors price[i] / price[0], i >= 1, never fall
GrowthNonDecreasing(pd) ==
    \A i \in 2..(Len(pd) - 1) : pd[i].adj_close <= pd[i + 1].adj_close

\* C5: for every valid price series the computed max_drawdown is >= 0, and
\* it is 0 whenever the prices are strictly increasing or, more generally,
\* the cumulative growth series is non-decreasing.
C5_MaxDrawdownNonNegative ==
    (ReachedConstructor /\ ValidSeries(price_data)) =>
        /\ Computed.max_drawdown.k = Zero
        /\ RLe(Zero, Computed.max_drawdown.c)
        /\ (StrictlyIncreasing(price_data) \/ GrowthNonDecreasing(price_data))
               => Computed.max_drawdown = NZero

\* C5 witness: the engine has computed the drawdown of a strictly
\* increasing series of three prices, and found 0.
C5_Witness ==
    /\ ReachedConstructor
    /\ ValidSeries(price_data)
    /\ Len(price_data) = 3
    /\ StrictlyIncreasing(price_data)
    /\ Computed.max_drawdown = NZero

(***************************************************************************)
(* C6                                                                      *)
(***************************************************************************)
ConstantSeries(pd) == \A i \in 1..Len(pd) : pd[i].adj_close = pd[1].adj_close

\* C6: for every constant valid price series and every risk-free rate the
\* computed volatility, sharpe_ratio, sortino_ratio and total_return are 0.
C6_ConstantSeries ==
    (ReachedConstructor /\ ValidSeries(price_data)
        /\ ConstantSeries(price_data)) =>
        /\ Computed.volatility = NZero
        /\ Computed.sharpe_ratio = NZero
        /\ Computed.sortino_ratio = NZero
        /\ Computed.total_return = NZero

\* C6 witness: a constant series of three prices was evaluated with a
\* non-zero risk-free rate.
C6_Witness ==
    /\ ReachedConstructor
    /\ ValidSeries(price_data)
    /\ ConstantSeries(price_data)
    /\ Len(price_data) = 3
    /\ risk_free_rate # Zero
    /\ Computed.sharpe_ratio = NZero

(***************************************************************************)
(* C7                                                                      *)
(***************************************************************************)
ConstantArray(a) == \A i \in 1..Len(a) : a[i] = a[1]

\* C7: when the benchmark is the series' own return series, of at least 2
\* returns and not constant, the computed beta is 1.
C7_BetaOfIdenticalBenchmark ==
    (/\ ReachedConstructor
     /\ ValidSeries(price_data)
     /\ benchmark_returns = Some(DerivedReturns)
     /\ Len(DerivedReturns) >= 2
     /\ ~ConstantArray(DerivedReturns)) =>
        Computed.beta = Some(NRat(One))

(***************************************************************************)
(* C8                                                                      *)
(***************************************************************************)
\* C8: a ratio whose denominator is zero takes its fallback value and the
\* division raises nothing: sharpe_ratio is 0 when volatility is 0,
\* sortino_ratio is 0 when the downside volatility is 0, information_ratio
\* is 0 when tracking_error is 0 and beta is 1 when the benchmark variance
\* is 0.
C8_ZeroDenominatorFallbacks ==
    (MetricsCalled /\ Len(price_data) >= 2) =>
        /\ Outcome # "ZeroDivisionError"
        /\ ReachedConstructor
        /\ NIsZero(Computed.volatility) => Computed.sharpe_ratio = NZero
        /\ NIsZero(DownsideVolatility(DerivedReturns))
               => Computed.sortino_ratio = NZero
        /\ BenchmarkUsed(DerivedReturns, benchmark_returns) =>
               /\ NIsZero(Computed.tracking_error[1])
                      => Computed.information_ratio = Some(NZero)
               /\ np_var(benchmark_returns[1]) = Zero
                      => Computed.beta = Some(NRat(One))

\* C8 witness: the benchmark equals the returns, which vary, so that the
\* tracking error is 0 while the volatility is not, and the information
\* ratio took its fallback.
C8_Witness ==
    /\ ReachedConstructor
    /\ ValidSeries(price_data)
    /\ benchmark_returns = Some(DerivedReturns)
    /\ ~NIsZero(Computed.volatility)
    /\ NIsZero(Computed.tracking_error[1])
    /\ Computed.information_ratio = Some(NZero)

(***************************************************************************)
(* C10                                                                     *)
(***************************************************************************)
\* C10 as stated: the record's ticker is the input series' ticker and its
\* period label is the label the input came with.
C10_LabelsCarriedThrough ==
    ReachedConstructor =>
        /\ Computed.ticker = price_data[1].ticker
        /\ Computed.period = period

\* C10 as amended: the ticker handed to the record is that of the first
\* observation, and the period label is derived from the number of
\* returns: "<n-1>d" for a series of n observations.
C10_TickerCarriedPeriodDerived ==
    ReachedConstructor =>
        /\ Computed.ticker = price_data[1].ticker
        /\ Computed.period = ToString(Len(price_data) - 1) \o "d"

\* C10 witness: a three-observation series of ticker Y fetched under the
\* label "5y" was evaluated and labelled "2d".
C10_Witness ==
    /\ ReachedConstructor
    /\ Len(price_data) = 3
    /\ period = "5y"
    /\ Computed.ticker = "Y"
    /\ Computed.period = "2d"

(***************************************************************************)
(* C11                                                                     *)
(***************************************************************************)
\* the array calculate_returns returned
ReturnedReturns == returns_result[1]

\* C11: for every sequence of n >= 2 positive prices calculate_returns
\* yields exactly n-1 values, the i-th being price[i]/price[i-1] - 1 in the
\* order of the input, nothing reordered or dropped.
C11_ReturnsElementwise ==
    (ReturnsCalled /\ ValidSeries(price_data)) =>
        /\ Len(ReturnedReturns) = Len(price_data) - 1
        /\ \A i \in 1..(Len(price_data) - 1) :
               ReturnedReturns[i] =
                   RSub(Norm(price_data[i + 1].adj_close,
                             price_data[i].adj_close), One)

\* C11, the input: no step of the program changes the price series (or
\* any other input) it was given.
C11_InputUnmodified == [][inputs' = inputs]_vars

\* C11: the returns are the elementwise quotients and the input is left
\* as it was.
C11_Returns == []C11_ReturnsElementwise /\ C11_InputUnmodified

\* C11 witness: calculate_returns was applied to three positive prices
\* that rise and then fall; the two returns came back in that order.
C11_Witness ==
    /\ ReturnsCalled
    /\ ValidSeries(price_data)
    /\ Len(price_data) = 3
    /\ Len(ReturnedReturns) = 2
    /\ RLt(ReturnedReturns[2], Zero)
    /\ RLt(Zero, ReturnedReturns[1])

(***************************************************************************)
(* binary64.  The arrays of calculate_sortino_ratio hold float64 values    *)
(* and every numpy operation on them rounds its exact result to the        *)
(* nearest value with a 53-bit significand, ties to even.  A finite value  *)
(* is (-1)^s * m * 2^e with m = 0 or 2^52 <= m < 2^53; m is kept as a      *)
(* natural number of any size: its digits in base 2^15, least significant  *)
(* first, without leading zeros.  The exponent is not limited (no value    *)
(* of the model comes near 2^1024 or 2^-1022) and the sign of a zero is    *)
(* not kept (the code compares with 0 by value).                           *)
(***************************************************************************)
LimbBits == 15

Limb == 2 ^ LimbBits

Precision == 53

RECURSIVE BigOfInt(_)
BigOfInt(n) == IF n = 0 THEN <<>> ELSE <<n % Limb>> \o BigOfInt(n \div Limb)

RECURSIVE BigTrim(_)
BigTrim(a) ==
    IF a = <<>> THEN <<>>
    ELSE IF a[Len(a)] = 0 THEN BigTrim(SubSeq(a, 1, Len(a) - 1))
    ELSE a

BigLimb(a, i) == IF i <= Len(a) THEN a[i] ELSE 0

RECURSIVE BigAddFrom(_, _, _, _)
BigAddFrom(a, b, i, carry) ==
    IF i > Len(a) /\ i > Len(b)
    THEN IF carry = 0 THEN <<>> ELSE <<carry>>
    ELSE LET t == BigLimb(a, i) + BigLimb(b, i) + carry
         IN  <<t % Limb>> \o BigAddFrom(a, b, i + 1, t \div Limb)

BigAdd(a, b) == BigAddFrom(a, b, 1, 0)

RECURSIVE BigSubFrom(_, _, _, _)
BigSubFrom(a, b, i, borrow) ==
    IF i > Len(a) THEN <<>>
    ELSE LET t == a[i] - BigLimb(b, i) - borrow
         IN  IF t < 0 THEN <<t + Limb>> \o BigSubFrom(a, b, i + 1, 1)
             ELSE <<t>> \o BigSubFrom(a, b, i + 1, 0)

\* a - b, for a >= b
BigSub(a, b) == BigTrim(BigSubFrom(a, b, 1, 0))

RECURSIVE BigCmpFrom(_, _, _)
BigCmpFrom(a, b, i) ==
    IF i = 0 THEN 0
    ELSE IF a[i] < b[i] THEN -1
    ELSE IF a[i] > b[i] THEN 1
    ELSE BigCmpFrom(a, b, i - 1)

\* -1, 0 or 1 as a < b, a = b or a > b
BigCmp(a, b) ==
    IF Len(a) < Len(b) THEN -1
    ELSE IF Len(a) > Len(b) THEN 1
    ELSE BigCmpFrom(a, b, Len(a))

RECURSIVE BigScaleFrom(_, _, _, _)
BigScaleFrom(a, k, i, carry) ==
    IF i > Len(a) THEN BigOfInt(carry)
    ELSE LET t == a[i] * k + carry
         IN  <<t % Limb>> \o BigScaleFrom(a, k, i + 1, t \div Limb)

\* a * k, for 0 <= k <= Limb
BigScale(a, k) == IF k = 0 THEN <<>> ELSE BigScaleFrom(a, k, 1, 0)

\* a * Limb^n
BigShiftLimbs(a, n) == IF a = <<>> THEN <<>> ELSE [i \in 1..n |-> 0] \o a

RECURSIVE BigMulFrom(_, _, _)
BigMulFrom(a, b, i) ==
    IF i > Len(b) THEN <<>>
    ELSE BigAdd(BigScale(a, b[i]), BigShiftLimbs(BigMulFrom(a, b, i + 1), 1))

BigMul(a, b) == BigMulFrom(a, b, 1)

\* a * 2^k
BigShl(a, k) ==
    BigShiftLimbs(BigScale(a, 2 ^ (k % LimbBits)), k \div LimbBits)

RECURSIVE BigDivSmallFrom(_, _, _, _)
BigDivSmallFrom(a, d, i, rem) ==
    IF i = 0 THEN <<>>
    ELSE LET t == rem * Limb + a[i]
         IN  BigDivSmallFrom(a, d, i - 1, t % d) \o <<t \div d>>

\* floor(a / 2^k)
BigShr(a, k) ==
    LET n == k \div LimbBits
        b == IF n >= Len(a) THEN <<>> ELSE SubSeq(a, n + 1, Len(a))
    IN  BigTrim(BigDivSmallFrom(b, 2 ^ (k % LimbBits), Len(b), 0))

RECURSIVE IntBitLen(_)
IntBitLen(n) == IF n = 0 THEN 0 ELSE 1 + IntBitLen(n \div 2)

\* the number of binary digits of a
BigBitLen(a) ==
    IF a = <<>> THEN 0
    ELSE (Len(a) - 1) * LimbBits + IntBitLen(a[Len(a)])

BigOne == BigOfInt(1)

BigIsOdd(a) == a # <<>> /\ a[1] % 2 = 1

\* the d with d * b <= r < (d + 1) * b, for r < b * Limb and b with a top
\* limb of at least Limb / 2: the quotient of the leading limbs is d, d + 1
\* or d + 2
BigDigit(r, b) ==
    LET n == Len(b)
        est == (BigLimb(r, n + 1) * Limb + BigLimb(r, n)) \div b[n]
        top == IF est >= Limb THEN Limb - 1 ELSE est
    IN  CHOOSE d \in {k \in (top - 2)..top : k >= 0} :
            /\ BigCmp(BigScale(b, d), r) <= 0
            /\ BigCmp(BigScale(b, d + 1), r) > 0

\* long division by b of the limbs a[i], .., a[1] brought down onto the
\* remainder r
RECURSIVE BigDivFrom(_, _, _, _)
BigDivFrom(a, b, i, r) ==
    IF i = 0 THEN [q |-> <<>>, r |-> r]
    ELSE LET r1 == BigTrim(<<a[i]>> \o r)
             d == BigDigit(r1, b)
             rest == BigDivFrom(a, b, i - 1, BigSub(r1, BigScale(b, d)))
         IN  [q |-> rest.q \o <<d>>, r |-> rest.r]

\* quotient and remainder of a / b, for b > 0
BigDivMod(a, b) ==
    LET sh == LimbBits - IntBitLen(b[Len(b)])
        x == BigShl(a, sh)
        d == BigDivFrom(x, BigShl(b, sh), Len(x), <<>>)
    IN  [q |-> BigTrim(d.q), r |-> BigShr(d.r, sh)]

\* floor(sqrt(x)) by Newton's iteration from s >= floor(sqrt(x))
RECURSIVE BigSqrtFrom(_, _)
BigSqrtFrom(x, s) ==
    LET t == BigShr(BigAdd(s, BigDivMod(x, s).q), 1)
    IN  IF BigCmp(t, s) >= 0 THEN s ELSE BigSqrtFrom(x, t)

F64NaN == [k |-> "nan", s |-> 0, m |-> <<>>, e |-> 0]

F64Inf(s) == [k |-> "inf", s |-> s, m |-> <<>>, e |-> 0]

F64Zero == [k |-> "fin", s |-> 0, m |-> <<>>, e |-> 0]

F64IsZero(a) == a.k = "fin" /\ a.m = <<>>

\* the float64 nearest to (-1)^s * (m + t) * 2^e, with 0 < t < 1 when
\* sticky (m then has more than Precision digits) and t = 0 otherwise
F64Round(s, m, e, sticky) ==
    IF m = <<>> THEN F64Zero
    ELSE LET len == BigBitLen(m)
         IN  IF len <= Precision
             THEN [k |-> "fin", s |-> s, m |-> BigShl(m, Precision - len),
                   e |-> e - (Precision - len)]
             ELSE LET n == len - Precision
                      q == BigShr(m, n)
                      c == BigCmp(BigSub(m, BigShl(q, n)), BigShl(BigOne, n - 1))
                      up == c > 0 \/ (c = 0 /\ (sticky \/ BigIsOdd(q)))
                      r == IF up THEN BigAdd(q, BigOne) ELSE q
                  IN  IF BigBitLen(r) > Precision
                      THEN [k |-> "fin", s |-> s, m |-> BigShr(r, 1), e |-> e + n + 1]
                      ELSE [k |-> "fin", s |-> s, m |-> r, e |-> e + n]

\* a Python int as a float64
F64OfInt(n) == F64Round(IF n < 0 THEN 1 ELSE 0, BigOfInt(IF n < 0 THEN -n ELSE n), 0, FALSE)

F64Neg(a) == IF a.k = "nan" \/ F64IsZero(a) THEN a ELSE [a EXCEPT !.s = 1 - a.s]

\* a + b for finite non-zero a and b, a the one with the larger exponent
F64AddAligned(a, b) ==
    IF a.e - b.e > Precision + 2 THEN a
    ELSE LET x == BigShl(a.m, a.e - b.e)
             c == BigCmp(x, b.m)
         IN  IF a.s = b.s THEN F64Round(a.s, BigAdd(x, b.m), b.e, FALSE)
             ELSE IF c = 0 THEN F64Zero
             ELSE IF c > 0 THEN F64Round(a.s, BigSub(x, b.m), b.e, FALSE)
             ELSE F64Round(b.s, BigSub(b.m, x), b.e, FALSE)

F64Add(a, b) ==
    IF a.k = "nan" \/ b.k = "nan" THEN F64NaN
    ELSE IF a.k = "inf" THEN (IF b.k = "inf" /\ b.s # a.s THEN F64NaN ELSE a)
    ELSE IF b.k = "inf" THEN b
    ELSE IF F64IsZero(a) THEN b
    ELSE IF F64IsZero(b) THEN a
    ELSE IF a.e >= b.e THEN F64AddAligned(a, b)
    ELSE F64AddAligned(b, a)

F64Sub(a, b) == F64Add(a, F64Neg(b))

F64Mul(a, b) ==
    IF a.k = "nan" \/ b.k = "nan" THEN F64NaN
    ELSE IF a.k = "inf" \/ b.k = "inf"
         THEN (IF F64IsZero(a) \/ F64IsZero(b) THEN F64NaN
               ELSE F64Inf((a.s + b.s) % 2))
    ELSE IF F64IsZero(a) \/ F64IsZero(b) THEN F64Zero
    ELSE F64Round((a.s + b.s) % 2, BigMul(a.m, b.m), a.e + b.e, FALSE)

\* a / b for finite non-zero a and b
F64DivFinite(a, b) ==
    LET d == BigDivMod(BigShl(a.m, Precision + 2), b.m)
    IN  F64Round((a.s + b.s) % 2, d.q, a.e - b.e - (Precision + 2), d.r # <<>>)

F64Div(a, b) ==
    IF a.k = "nan" \/ b.k = "nan" THEN F64NaN
    ELSE IF a.k = "inf" THEN (IF b.k = "inf" THEN F64NaN ELSE F64Inf((a.s + b.s) % 2))
    ELSE IF b.k = "inf" THEN F64Zero
    ELSE IF F64IsZero(b) THEN (IF F64IsZero(a) THEN F64NaN ELSE F64Inf((a.s + b.s) % 2))
    ELSE IF F64IsZero(a) THEN F64Zero
    ELSE F64DivFinite(a, b)

\* sqrt(a) for finite a > 0
F64SqrtFinite(a) ==
    LET n == Precision + 3 + ((a.e + Precision + 3) % 2)
        x == BigShl(a.m, n)
        r == BigSqrtFrom(x, BigShl(BigOne, Precision + 2))
    IN  F64Round(0, r, (a.e - n) \div 2, BigMul(r, r) # x)

F64Sqrt(a) ==
    IF a.k = "nan" THEN F64NaN
    ELSE IF F64IsZero(a) THEN F64Zero
    ELSE IF a.s = 1 THEN F64NaN
    ELSE IF a.k = "inf" THEN a
    ELSE F64SqrtFinite(a)

\* a < 0, as numpy compares (nan < 0 is False)
F64IsNegative(a) == a.k # "nan" /\ a.s = 1 /\ ~F64IsZero(a)

F64One == F64OfInt(1)

\* a Python float written as the quotient n / d of two small integers
F64OfRat(q) == F64Div(F64OfInt(q[1]), F64OfInt(q[2]))

\* np.add.reduce of a float64 array of fewer than 8 values: they are added
\* one after the other, each sum rounded
RECURSIVE np_sum64(_)
np_sum64(a) ==
    IF Len(a) = 0 THEN F64Zero
    ELSE F64Add(np_sum64(SubSeq(a, 1, Len(a) - 1)), a[Len(a)])

\* np.mean of a float64 array: umr_sum(arr) / n
np_mean64(a) == F64Div(np_sum64(a), F64OfInt(Len(a)))

\* np.std of a float64 array (ddof = 0): the square root of the mean of
\* the squares of arr - arrmean
np_std64(a) ==
    LET arrmean == np_mean64(a)
        x == [i \in 1..Len(a) |-> F64Sub(a[i], arrmean)]
    IN  F64Sqrt(np_mean64([i \in 1..Len(a) |-> F64Mul(x[i], x[i])]))

\* np.sqrt(252)
np_sqrt_252 == F64Sqrt(F64OfInt(252))

\* np.where(returns < 0, returns, 0) on a float64 array
DownsideReturns64(returns) ==
    [i \in 1..Len(returns) |->
        IF F64IsNegative(returns[i]) THEN returns[i] ELSE F64Zero]

\* calculate_sortino_ratio on a float64 array, every operation rounded as
\* numpy rounds it
calculate_sortino_ratio64(returns, rate) ==
    LET daily == F64Div(rate, F64OfInt(252))
        excess_returns == [i \in 1..Len(returns) |-> F64Sub(returns[i], daily)]
        downside_volatility ==
            F64Mul(np_std64(DownsideReturns64(returns)), np_sqrt_252)
    IN  IF ~F64IsZero(downside_volatility)
        THEN F64Div(F64Mul(np_mean64(excess_returns), F64OfInt(252)),
                    downside_volatility)
        ELSE F64Zero

(***************************************************************************)
(* Direct calls of calculate_sortino_ratio on a float64 returns array.     *)
(***************************************************************************)
\* pairs of consecutive prices <<before, after>> the returns come from
PricePairs == {<<27, 18>>, <<2, 1>>, <<1, 1>>, <<2, 3>>}

\* the returns calculate_returns derives from them: after / before - 1
ReturnValues ==
    {F64Sub(F64Div(F64OfInt(p[2]), F64OfInt(p[1])), F64One) : p \in PricePairs}

\* all returns arrays of at most MaxLen values
ReturnArrays == UNION {[1..n -> ReturnValues] : n \in 0..MaxLen}

\* the engine is not called
EngineIdle ==
    /\ price_data = <<>>
    /\ benchmark_returns = None
    /\ period = "5y"
    /\ returns_result = None
    /\ metrics_result = None

InitSortino ==
    /\ EngineIdle
    /\ risk_free_rate \in RiskFreeRates
    /\ sortino_returns \in ReturnArrays
    /\ sortino_result = None
    /\ ViewIdle
    /\ RepoIdle

\* a call of calculate_sortino_ratio; the downside series it builds on the
\* way is kept next to the ratio it returns
CallCalculateSortinoRatio ==
    /\ sortino_result = None
    /\ sortino_result' =
           Some([downside_returns |-> DownsideReturns64(sortino_returns),
                 ratio |-> calculate_sortino_ratio64(sortino_returns,
                                                     F64OfRat(risk_free_rate))])
    /\ UNCHANGED <<engine_vars, sortino_returns, view_vars, repo_vars>>

NextSortino == CallCalculateSortinoRatio

SpecSortino == InitSortino /\ [][NextSortino]_vars

(***************************************************************************)
(* C13                                                                     *)
(***************************************************************************)
SortinoCalled == sortino_result # None

\* C13: the downside series holds 0 for every non-negative return and the
\* return itself for every negative one; whenever that series is constant
\* (no negative return, or all returns the same negative value) the
\* Sortino ratio is 0, for any risk-free rate.
C13_SortinoDownside ==
    (SortinoCalled /\ Len(sortino_returns) >= 1) =>
        /\ Len(sortino_result[1].downside_returns) = Len(sortino_returns)
        /\ \A i \in 1..Len(sortino_returns) :
               sortino_result[1].downside_returns[i] =
                   IF sortino_returns[i].s = 1 THEN sortino_returns[i]
                   ELSE F64Zero
        /\ ConstantArray(sortino_result[1].downside_returns)
               => F64IsZero(sortino_result[1].ratio)

(***************************************************************************)
(* C14                                                                     *)
(***************************************************************************)
\* the highest price from the second observation up to observation i
PeakFromSecond(pd, i) ==
    CHOOSE m \in {pd[j].adj_close : j \in 2..i} :
        \A j \in 2..i : pd[j].adj_close <= m

\* the fall of observation i below that peak, relative to the peak
FallBelowPeak(pd, i) ==
    Norm(PeakFromSecond(pd, i) - pd[i].adj_close, PeakFromSecond(pd, i))

\* C14: for every valid series the computed max_drawdown is the largest,
\* over the observations i from the second on, of
\* (max(price[1..i]) - price[i]) / max(price[1..i]), the peak being taken
\* from the second observation on: the first price is never a peak, and a
\* series of two observations has max_drawdown 0 however far it falls.
C14_DrawdownPeakFromSecond ==
    (ReachedConstructor /\ ValidSeries(price_data)) =>
        /\ \E i \in 2..Len(price_data) :
               Computed.max_drawdown = NRat(FallBelowPeak(price_data, i))
        /\ \A i \in 2..Len(price_data) :
               RLe(FallBelowPeak(price_data, i), Computed.max_drawdown.c)
        /\ Len(price_data) = 2 => Computed.max_drawdown = NZero

\* C14 witness: three falling prices; the computed max_drawdown is the fall
\* from the second to the third, smaller than the fall from the first.
C14_Witness ==
    /\ ReachedConstructor
    /\ ValidSeries(price_data)
    /\ Len(price_data) = 3
    /\ price_data[1].adj_close > price_data[2].adj_close
    /\ price_data[2].adj_close > price_data[3].adj_close
    /\ Computed.max_drawdown =
           NRat(Norm(price_data[2].adj_close - price_data[3].adj_close,
                     price_data[2].adj_close))
    /\ RLt(Computed.max_drawdown.c,
           Norm(price_data[1].adj_close - price_data[3].adj_close,
                price_data[1].adj_close))

(***************************************************************************)
(* src/src/view.py: the dashboard.                                         *)
(***************************************************************************)
\* the attributes display_metrics_table reads from a record, in the order
\* the row's dictionary literal evaluates them
TableColumns ==
    <<"total_return", "annualized_return", "volatility", "sharpe_ratio",
      "sortino_ratio", "max_drawdown", "beta", "alpha", "r_squared",
      "tracking_error", "information_ratio">>

\* the columns written `f"{metric.x:...}" if metric.x else "N/A"`
GuardedColumns ==
    {"sortino_ratio", "beta", "alpha", "r_squared", "tracking_error",
     "information_ratio"}

\* the columns formatted as a percentage; the others are formatted ".2f"
PercentColumns ==
    {"total_return", "annualized_return", "volatility", "max_drawdown",
     "alpha", "r_squared", "tracking_error"}

\* the cell "N/A"
NotApplicable == <<"N/A">>

\* the text of a number under a format specification
Formatted(format, value) == <<format, value>>

\* bool(metric.x): None and a zero are false, every other number is true
Truthy(metric, column) ==
    IF column \in BenchmarkRelativeFields
    THEN metric[column] # None /\ ~NIsZero(metric[column][1])
    ELSE ~NIsZero(metric[column])

\* the number held by an attribute
AttributeValue(metric, column) ==
    IF column \in BenchmarkRelativeFields THEN metric[column][1]
    ELSE metric[column]

\* one value of the row's dictionary
Cell(metric, column) ==
    IF column \in GuardedColumns /\ ~Truthy(metric, column)
    THEN NotApplicable
    ELSE Formatted(IF column \in PercentColumns THEN ".2%" ELSE ".2f",
                   AttributeValue(metric, column))

\* the row built for one record: reading an attribute the object does not
\* have raises AttributeError
Row(metric) ==
    IF \E i \in 1..Len(TableColumns) : TableColumns[i] \notin DOMAIN metric
    THEN [outcome |-> "AttributeError", cells |-> None]
    ELSE [outcome |-> "built",
          cells |-> Some([column \in {TableColumns[i] : i \in 1..Len(TableColumns)}
                             |-> Cell(metric, column)])]

\* display_metrics_table: a row per record, then the table is shown
display_metrics_table(metrics) ==
    IF \E i \in 1..Len(metrics) : Row(metrics[i]).outcome = "AttributeError"
    THEN [outcome |-> "AttributeError", rows |-> None]
    ELSE [outcome |-> "shown",
          rows |-> Some([i \in 1..Len(metrics) |-> Row(metrics[i]).cells[1]])]

\* all_prices = {base_etf.ticker: base_prices}; all_prices.update(...)
AllPrices(base_ticker, base_prices, comparison) ==
    IF comparison = None THEN <<base_prices>>
    ELSE IF comparison[1].ticker = base_ticker THEN <<comparison[1].prices>>
    ELSE <<base_prices, comparison[1].prices>>

\* 100 * price.adj_close / prices[0].adj_close divides Python floats
NormalizationFails(all_prices) ==
    \E i \in 1..Len(all_prices) :
        Len(all_prices[i]) > 0 /\ all_prices[i][1].adj_close = 0

\* the calls of the engine, without a benchmark, in the order they are made:
\* the base series, then every comparison series
EngineCalls(base, comparison, rate) ==
    LET series == IF comparison = None THEN <<base>>
                  ELSE <<base, comparison[1].prices>>
    IN  [i \in 1..Len(series) |->
            calculate_performance_metrics(series[i], rate, None)]

\* the metrics dictionary of display_comparison, once every engine call
\* has returned its record; a comparison record under the base ticker
\* takes the place of the base record
ComparisonMetrics(base_ticker, comparison, results) ==
    LET records == [i \in 1..Len(results) |-> results[i].kwargs[1]]
    IN  IF comparison # None /\ comparison[1].ticker = base_ticker
        THEN <<records[2]>>
        ELSE records

\* the second column: the first engine call that raises ends
\* display_comparison, otherwise the table is shown
ComparisonTable(base_ticker, comparison, results) ==
    LET raised == {i \in 1..Len(results) : results[i].outcome # "returned"}
    IN  IF raised # {}
        THEN [outcome |->
                  results[CHOOSE i \in raised :
                              \A j \in raised : i <= j].outcome,
              rows |-> None]
        ELSE display_metrics_table(
                 ComparisonMetrics(base_ticker, comparison, results))

\* display_comparison: the chart of the normalised prices, then the engine
\* without a benchmark for the base series and for every comparison
\* series, then the table; an exception of any step ends the call
display_comparison(base_ticker, base, comparison, rate) ==
    IF NormalizationFails(AllPrices(base_ticker, base, comparison))
    THEN [outcome |-> "ZeroDivisionError", rows |-> None]
    ELSE ComparisonTable(base_ticker, comparison,
                         EngineCalls(base, comparison, rate))

\* values of the attributes that may be None
OptionalValues == {None, Some(NZero), Some(NRat(Norm(1, 2)))}

\* instances of the PerformanceMetrics dataclass
Instances ==
    [ticker : Tickers, period : {"2d"}, total_return : {NRat(Norm(1, 2))},
     annualized_return : {NRat(Norm(1, 2))}, volatility : {NZero},
     sharpe_ratio : {NZero, NRat(One)}, max_drawdown : {NZero},
     tracking_error : OptionalValues, beta : OptionalValues,
     correlation : {None}]

\* dictionaries of instances keyed by their tickers
MetricsDicts ==
    {<<>>}
        \cup {<<m>> : m \in Instances}
        \cup {<<m, n>> : m \in {i \in Instances : i.ticker = "X"},
                         n \in {i \in Instances : i.ticker = "Y"}}

\* the comparison_prices dictionaries: empty, or one series under "Y"
ComparisonChoices ==
    {None}
        \cup {Some([ticker |-> "Y", prices |-> p]) :
                p \in {pd \in PriceSeries :
                          /\ Len(pd) \in {0, 2}
                          /\ \A i \in 1..Len(pd) :
                                 pd[i].ticker = "Y" /\ pd[i].adj_close \in {0, 1}}}

\* the ticker of base_etf: the one of its observations ("X" when it has none)
BaseTicker == IF price_data = <<>> THEN "X" ELSE price_data[1].ticker

InitView ==
    /\ benchmark_returns = None
    /\ period = "5y"
    /\ returns_result = None
    /\ metrics_result = None
    /\ SortinoIdle
    /\ RepoIdle
    /\ view_result = None
    /\ \/ /\ price_data \in PriceSeries
          /\ risk_free_rate \in RiskFreeRates
          /\ comparison_prices \in ComparisonChoices
          /\ table_metrics = <<>>
       \/ /\ price_data = <<>>
          /\ risk_free_rate = Zero
          /\ comparison_prices = None
          /\ table_metrics \in MetricsDicts

\* a call of display_metrics_table on a dictionary of records
DisplayMetricsTable ==
    /\ view_result = None
    /\ view_result' =
           Some([op |-> "display_metrics_table"]
                    @@ display_metrics_table(table_metrics))
    /\ UNCHANGED <<engine_vars, sortino_vars, table_metrics, comparison_prices,
                   repo_vars>>

\* a call of display_comparison on the price series
DisplayComparison ==
    /\ view_result = None
    /\ view_result' =
           Some([op |-> "display_comparison"]
                    @@ display_comparison(BaseTicker, price_data,
                                          comparison_prices, risk_free_rate))
    /\ UNCHANGED <<engine_vars, sortino_vars, table_metrics, comparison_prices,
                   repo_vars>>

NextView == DisplayMetricsTable \/ DisplayComparison

SpecView == InitView /\ [][NextView]_vars

(***************************************************************************)
(* C12                                                                     *)
(***************************************************************************)
TableCalled ==
    view_result # None /\ view_result[1].op = "display_metrics_table"

ComparisonCalled ==
    view_result # None /\ view_result[1].op = "display_comparison"

\* the table was shown, with one row per record
TableShown(n) ==
    /\ view_result[1].outcome = "shown"
    /\ Len(view_result[1].rows[1]) = n

\* the record does not hold a value for the field
Absent(metric, field) == field \notin DOMAIN metric \/ metric[field] = None

\* every series handed to display_comparison is a valid one
ComparisonInputsValid ==
    /\ ValidSeries(price_data)
    /\ comparison_prices # None => ValidSeries(comparison_prices[1].prices)

\* C12: display_metrics_table shows every record it is given, with "N/A"
\* in each benchmark-relative column whose field the record does not hold;
\* display_comparison, which computes its records without a benchmark,
\* shows a table whose benchmark-relative columns all read "N/A".
C12_AbsentFieldsNotApplicable ==
    /\ TableCalled =>
           /\ TableShown(Len(table_metrics))
           /\ \A i \in 1..Len(table_metrics) :
                  \A field \in BenchmarkRelativeFields :
                      Absent(table_metrics[i], field)
                          => view_result[1].rows[1][i][field] = NotApplicable
    /\ (ComparisonCalled /\ ComparisonInputsValid) =>
           /\ view_result[1].outcome = "shown"
           /\ \A i \in 1..Len(view_result[1].rows[1]) :
                  \A field \in BenchmarkRelativeFields :
                      view_result[1].rows[1][i][field] = NotApplicable

(***************************************************************************)
(* C15                                                                     *)
(***************************************************************************)
\* C15: in the table display_metrics_table shows, a guarded column reads
\* "N/A" exactly when the record does not hold the field; a field that is
\* present, a zero included, is shown as a formatted number.
C15_NotApplicableOnlyWhenAbsent ==
    TableCalled =>
        /\ TableShown(Len(table_metrics))
        /\ \A i \in 1..Len(table_metrics) :
               \A field \in GuardedColumns :
                   (view_result[1].rows[1][i][field] = NotApplicable)
                       <=> Absent(table_metrics[i], field)


(***************************************************************************)
(* repository.py and etl.py: the SQLite price store and the cached loader.  *)
(* The table price_data is the set of its rows; a row keeps the date as     *)
(* the ISO text written by isoformat.  Dates are the days 9 and 10 of one   *)
(* month, so that the text order of the zero-padded days ("09" < "10") is   *)
(* what the WHERE and ORDER BY clauses compare.  A close price is an        *)
(* integer standing for the float, the volume is always None (NULL).        *)
(***************************************************************************)

\* longest list handed to save_price_data, longest downloaded history
MaxSave == 2

Dates == {9, 10}

CloseValues == {1, 2}

\* datetime.isoformat: the day as two decimal digits, most significant first
isoformat(date) == <<date \div 10, date % 10>>

\* datetime.fromisoformat: the day read back from its two digits
fromisoformat(text) == 10 * text[1] + text[2]

\* the comparison of two TEXT values of equal width, character by character
TextLe(a, b) ==
    \/ a = b
    \/ \E i \in 1..Len(a) :
           /\ a[i] < b[i]
           /\ \A j \in 1..(i - 1) : a[j] = b[j]

\* ETFPriceData
Observations ==
    [ticker : Tickers, date : Dates, adj_close : CloseValues, volume : {None}]

\* the parameter tuple of the INSERT built from one observation
RowOf(data) ==
    [ticker |-> data.ticker, date |-> isoformat(data.date),
     adj_close |-> data.adj_close, volume |-> data.volume]

\* INSERT OR IGNORE: a row whose key is taken is dropped
InsertOrIgnore(table, row) ==
    IF \E r \in table : r.ticker = row.ticker /\ r.date = row.date
    THEN table
    ELSE table \union {row}

\* INSERT OR REPLACE under PRIMARY KEY (ticker, date): the row that holds
\* the key is deleted, then the new row is inserted
InsertOrReplace(table, row) ==
    {r \in table : ~(r.ticker = row.ticker /\ r.date = row.date)}
        \union {row}

\* executemany: the statement is run for each tuple of the list, in order
RECURSIVE ExecuteMany(_, _)
ExecuteMany(table, rows) ==
    IF rows = <<>> THEN table
    ELSE ExecuteMany(InsertOrReplace(table, Head(rows)), Tail(rows))

\* ETFRepository.save_price_data: the table after the call
save_price_data(table, data_list) ==
    ExecuteMany(table, [i \in 1..Len(data_list) |-> RowOf(data_list[i])])

\* ORDER BY date: the rows by ascending text
RECURSIVE OrderByDate(_)
OrderByDate(rows) ==
    IF rows = {} THEN <<>>
    ELSE LET first == CHOOSE r \in rows :
                          \A q \in rows : TextLe(r.date, q.date)
         IN  <<first>> \o OrderByDate(rows \ {first})

\* the WHERE clause of get_price_data; a bound is added only for a date given
Selected(table, ticker, start_date, end_date) ==
    {r \in table :
        /\ r.ticker = ticker
        /\ start_date # None => TextLe(isoformat(start_date[1]), r.date)
        /\ end_date # None => TextLe(r.date, isoformat(end_date[1]))}

\* ETFRepository.get_price_data: the list returned
get_price_data(table, ticker, start_date, end_date) ==
    LET rows == OrderByDate(Selected(table, ticker, start_date, end_date))
    IN  [i \in 1..Len(rows) |->
            [ticker |-> rows[i].ticker, date |-> fromisoformat(rows[i].date),
             adj_close |-> rows[i].adj_close, volume |-> rows[i].volume]]

\* ETFRepository.clear_price_data: the table after the DELETE
clear_price_data(table, ticker) == {r \in table : r.ticker # ticker}

\* the list built from the downloaded history
PriceDataOf(ticker, hist) ==
    [i \in 1..Len(hist) |->
        [ticker |-> ticker, date |-> hist[i].date,
         adj_close |-> hist[i].Close, volume |-> hist[i].Volume]]

\* a fetch that returns the download without saving it
fetch_price_data_Unsaved(table, ticker, start_date, end_date, fetch_period, use_cache, download) ==
    LET cached_data == get_price_data(table, ticker, start_date, end_date)
    IN  IF use_cache /\ cached_data # <<>>
        THEN [outcome |-> "returned", returned |-> cached_data,
              downloaded |-> FALSE, table |-> table]
        ELSE IF download.failed
        THEN [outcome |-> "ValueError", returned |-> <<>>,
              downloaded |-> TRUE, table |-> table]
        ELSE [outcome |-> "returned",
              returned |-> PriceDataOf(ticker, download.hist),
              downloaded |-> TRUE, table |-> table]

\* ETFDataLoader.fetch_price_data: the outcome, the list returned, whether
\* yfinance was asked, and the table after the call.  download is what
\* yfinance answers when asked: an exception (failed) or a history
fetch_price_data(table, ticker, start_date, end_date, fetch_period, use_cache, download) ==
    LET cached_data == get_price_data(table, ticker, start_date, end_date)
    IN  IF use_cache /\ cached_data # <<>>
        THEN [outcome |-> "returned", returned |-> cached_data,
              downloaded |-> FALSE, table |-> table]
        ELSE IF download.failed
        THEN [outcome |-> "ValueError", returned |-> <<>>,
              downloaded |-> TRUE, table |-> table]
        ELSE LET data_list == PriceDataOf(ticker, download.hist)
             IN  [outcome |-> "returned", returned |-> data_list,
                  downloaded |-> TRUE,
                  table |-> IF use_cache /\ data_list # <<>>
                            THEN save_price_data(table, data_list)
                            ELSE table]

\* the optional date arguments
DateChoices == {None} \union {Some(d) : d \in Dates}

\* the lists handed to save_price_data
SaveLists == UNION {[1..n -> Observations] : n \in 0..MaxSave}

\* a date within the bounds that are given
InRange(date, start_date, end_date) ==
    /\ start_date # None => start_date[1] <= date
    /\ end_date # None => date <= end_date[1]

\* the histories yfinance can answer with: rows of the requested range, in
\* strictly increasing date order
Histories(start_date, end_date) ==
    {h \in UNION {[1..n -> [date : Dates, Close : CloseValues,
                            Volume : {None}]] : n \in 0..MaxSave} :
        /\ \A i \in 1..Len(h) : InRange(h[i].date, start_date, end_date)
        /\ \A i, j \in 1..Len(h) : i < j => h[i].date < h[j].date}

\* what yfinance can do when asked
Downloads(start_date, end_date) ==
    {[failed |-> TRUE, hist |-> <<>>]}
        \union {[failed |-> FALSE, hist |-> h] :
                    h \in Histories(start_date, end_date)}

InitRepo ==
    /\ EngineIdle
    /\ risk_free_rate = Zero
    /\ SortinoIdle
    /\ ViewIdle
    /\ RepoIdle

\* a call of save_price_data
SavePriceData ==
    /\ repo_call = None
    /\ \E data_list \in SaveLists :
           /\ table_price_data' = save_price_data(table_price_data, data_list)
           /\ repo_call' = Some([op |-> "save_price_data",
                                 price_data |-> data_list,
                                 before |-> table_price_data])
    /\ UNCHANGED <<engine_vars, sortino_vars, view_vars>>

\* a call of get_price_data
GetPriceData ==
    /\ repo_call = None
    /\ \E ticker \in Tickers, start_date \in DateChoices,
          end_date \in DateChoices :
           repo_call' = Some([op |-> "get_price_data", ticker |-> ticker,
                              start_date |-> start_date,
                              end_date |-> end_date,
                              returned |-> get_price_data(table_price_data,
                                               ticker, start_date, end_date)])
    /\ UNCHANGED <<engine_vars, sortino_vars, view_vars, table_price_data>>

\* a call of clear_price_data
ClearPriceData ==
    /\ repo_call = None
    /\ \E ticker \in Tickers :
           /\ table_price_data' = clear_price_data(table_price_data, ticker)
           /\ repo_call' = Some([op |-> "clear_price_data",
                                 ticker |-> ticker,
                                 before |-> table_price_data])
    /\ UNCHANGED <<engine_vars, sortino_vars, view_vars>>

\* a call of fetch_price_data
FetchPriceData ==
    /\ repo_call = None
    /\ \E ticker \in Tickers, start_date \in DateChoices,
          end_date \in DateChoices, fetch_period \in Periods,
          use_cache \in BOOLEAN :
         \E download \in Downloads(start_date, end_date) :
           LET result == fetch_price_data(table_price_data, ticker,
                             start_date, end_date, fetch_period, use_cache,
                             download)
           IN  /\ table_price_data' = result.table
               /\ repo_call' = Some([op |-> "fetch_price_data",
                                     ticker |-> ticker,
                                     start_date |-> start_date,
                                     end_date |-> end_date,
                                     period |-> fetch_period,
                                     use_cache |-> use_cache,
                                     download |-> download,
                                     before |-> table_price_data,
                                     outcome |-> result.outcome,
                                     returned |-> result.returned,
                                     downloaded |-> result.downloaded])
    /\ UNCHANGED <<engine_vars, sortino_vars, view_vars>>

\* the caller goes on after the call
Return ==
    /\ repo_call # None
    /\ repo_call' = None
    /\ UNCHANGED <<engine_vars, sortino_vars, view_vars, table_price_data>>

NextRepo ==
    \/ SavePriceData
    \/ GetPriceData
    \/ ClearPriceData
    \/ FetchPriceData
    \/ Return

SpecRepo == InitRepo /\ [][NextRepo]_vars

(***************************************************************************)
(* Vocabulary of the repository claims.                                     *)
(***************************************************************************)

\* the call that has just returned is a call of op
Returned(op) == repo_call # None /\ repo_call[1].op = op

\* the observations a table holds
Stored(table) ==
    {[ticker |-> r.ticker, date |-> fromisoformat(r.date),
      adj_close |-> r.adj_close, volume |-> r.volume] : r \in table}

\* the observations of a list
Elements(data_list) == {data_list[i] : i \in 1..Len(data_list)}

\* two observations of the same (ticker, date)
SameKey(a, b) == a.ticker = b.ticker /\ a.date = b.date

\* the dates of a list increase strictly
DatesIncrease(data_list) ==
    \A i, j \in 1..Len(data_list) :
        i < j => data_list[i].date < data_list[j].date

\* C16, first part: the table holds at most one row for a (ticker, date)
OneRowPerKey ==
    \A r, q \in table_price_data : SameKey(r, q) => r = q

\* C16, second part: after a save, every key the list names holds the
\* observation saved last for it, and every other row is as it was
LatestSaved ==
    Returned("save_price_data") =>
        LET data_list == repo_call[1].price_data
            before == Stored(repo_call[1].before)
            after == Stored(table_price_data)
            Named(o) == \E i \in 1..Len(data_list) : SameKey(data_list[i], o)
        IN  /\ \A i \in 1..Len(data_list) :
                   (\A j \in (i + 1)..Len(data_list) :
                        ~SameKey(data_list[j], data_list[i]))
                       => data_list[i] \in after
            /\ {o \in after : ~Named(o)} = {o \in before : ~Named(o)}
            /\ \A o \in after : Named(o) => o \in Elements(data_list)

\* C16, third part: clear_price_data(t) removes the rows of t and no other
ClearExact ==
    Returned("clear_price_data") =>
        Stored(table_price_data) =
            {o \in Stored(repo_call[1].before) :
                 o.ticker # repo_call[1].ticker}

\* C16, fourth part: get_price_data returns stored rows of the ticker, within
\* the bounds, by strictly increasing date
GetOrdered ==
    Returned("get_price_data") =>
        LET call == repo_call[1]
        IN  /\ \A o \in Elements(call.returned) :
                   /\ o.ticker = call.ticker
                   /\ InRange(o.date, call.start_date, call.end_date)
                   /\ o \in Stored(table_price_data)
            /\ DatesIncrease(call.returned)

\* C16: whatever saves and clears were made, the store holds at most one row
\* per (ticker, date), a save leaves the value saved last for each key,
\* clear_price_data(t) removes exactly the rows of ticker t, and
\* get_price_data(t, start, end) returns only rows of t within [start, end]
\* in strictly increasing date order.
C16_RepositoryRows ==
    /\ OneRowPerKey
    /\ LatestSaved
    /\ ClearExact
    /\ GetOrdered

\* a read bounded on both sides returned both days of one ticker while the
\* other ticker has rows too
C16_Witness ==
    /\ Returned("get_price_data")
    /\ repo_call[1].start_date # None
    /\ repo_call[1].end_date # None
    /\ Len(repo_call[1].returned) = 2
    /\ \E r \in table_price_data : r.ticker # repo_call[1].ticker

\* the stored observations of the ticker and range of the fetch
CachedBefore ==
    {o \in Stored(repo_call[1].before) :
        /\ o.ticker = repo_call[1].ticker
        /\ InRange(o.date, repo_call[1].start_date, repo_call[1].end_date)}

\* the same call made again at once is a cache hit: whatever yfinance would
\* answer, it is not asked, and the list returned is the same
RepeatIsHit ==
    LET call == repo_call[1]
    IN  \A download \in Downloads(call.start_date, call.end_date) :
            LET again == fetch_price_data(table_price_data, call.ticker,
                             call.start_date, call.end_date, call.period,
                             TRUE, download)
            IN  /\ again.outcome = "returned"
                /\ ~again.downloaded
                /\ again.returned = call.returned
                /\ again.table = table_price_data

\* C17: with use_cache, a fetch whose ticker has a stored row in the range
\* returns the stored rows, asks yfinance nothing and leaves the repository
\* as it was, whatever the period; otherwise yfinance is asked, a non-empty
\* download is in the repository when it is returned, so that the same call
\* made again is a cache hit returning the same observations, and an empty
\* or failed download leaves the repository unchanged.
C17_CacheHitAndMiss ==
    (Returned("fetch_price_data") /\ repo_call[1].use_cache) =>
        LET call == repo_call[1]
        IN  IF CachedBefore # {}
            THEN /\ call.outcome = "returned"
                 /\ ~call.downloaded
                 /\ Elements(call.returned) = CachedBefore
                 /\ Len(call.returned) = Cardinality(CachedBefore)
                 /\ table_price_data = call.before
            ELSE /\ call.downloaded
                 /\ IF call.download.failed
                    THEN /\ call.outcome = "ValueError"
                         /\ table_price_data = call.before
                    ELSE /\ call.outcome = "returned"
                         /\ call.returned =
                                PriceDataOf(call.ticker, call.download.hist)
                         /\ IF call.download.hist = <<>>
                            THEN table_price_data = call.before
                            ELSE /\ Elements(call.returned)
                                        \subseteq Stored(table_price_data)
                                 /\ RepeatIsHit

\* a fetch over a range missed the cache, downloaded both days and saved them
C17_Witness ==
    /\ Returned("fetch_price_data")
    /\ repo_call[1].use_cache
    /\ repo_call[1].start_date # None
    /\ repo_call[1].downloaded
    /\ Len(repo_call[1].returned) = 2
    /\ table_price_data # repo_call[1].before
    /\ \E r \in repo_call[1].before : r.ticker # repo_call[1].ticker

=============================================================================
